---- MODULE Spec2Model ----
(***************************************************************************)
(* Audio pre-processing pipeline of dlaudio (audio_preprocessing.ipynb):   *)
(* the frame grid (N1, N2, Nframes), the allocation of the HDF5 datasets   *)
(* Xa (raw frames) and Xs (CQT spectrogram), the per-clip function         *)
(* process(genre, clip) and the loop that runs it over the whole corpus.   *)
(* The notebook is run top to bottom; the first uncaught exception stops   *)
(* the run.                                                                *)
(***************************************************************************)
EXTENDS Integers, Sequences, FiniteSets, TLC

(* ------------------------------ bounds --------------------------------- *)
MaxNa == 4
MaxSamples == 10
MaxGenres == 2
MaxClips == 2

(* ------------------------- program constants --------------------------- *)
ns == 96
GtzanNa == 1024
GtzanNsamples == 660000

VARIABLES
    na,            \* frame size (the notebook's na)
    Nsamples,      \* gtzan.attrs['Nsamples']
    Ngenres,       \* gtzan.attrs['Ngenres']
    Nclips,        \* gtzan.attrs['Nclips']
    seed,          \* selects the content of the clip store gtzan.hdf5
    Nframes,       \* min(N1, N2), set by the Parameters cell
    state,         \* position of the run / state of the driver
    genre, clip,   \* loop variables of the pipeline loop
    error,         \* the exception that stopped the run, "none" if none
    audioCreated,  \* h5py.File('data/audio.hdf5', 'w') has been executed
    XaShape,       \* shape of dataset Xa, <<>> while it does not exist
    XsShape,       \* shape of dataset Xs, <<>> while it does not exist
    Xa,            \* rows of Xa that have been written: <<g,c,i,o>> -> row
    Xs,            \* rows of Xs that have been written: <<g,c,i,o>> -> row
    visited,       \* the (genre, clip) pairs process was called with, in order
    workers        \* one task per (genre, clip) when the clips run in a pool:
                   \* the statements of process it has executed, its exception

vars == <<na, Nsamples, Ngenres, Nclips, seed, Nframes, state, genre, clip,
          error, audioCreated, XaShape, XsShape, Xa, Xs, visited, workers>>

config == <<na, Nsamples, Ngenres, Nclips, seed>>

(* ------------------------------ helpers -------------------------------- *)
Min(a, b) == IF a <= b THEN a ELSE b
Max(a, b) == IF a >= b THEN a ELSE b

\* np.floor(a / b) for integers a, b with b # 0, computed exactly.
FloorDiv(a, b) == IF b > 0 THEN a \div b ELSE (0 - a) \div (0 - b)

\* N1 = int(np.floor(float(Nsamples) / na))
N1(S, n) == FloorDiv(S, n)

\* A frame grid that divides the integers first (Nsamples / na without float()).
N2Truncating(S, n) == FloorDiv(S, n) - 1

\* N2 = int(np.floor(float(Nsamples) / na - 0.5)); S/n - 1/2 = (2S - n)/(2n).
\* The quotient is at least 1/(2n) away from the next integer, far more than
\* the rounding error of a double for any clip length that fits in memory.
N2(S, n) == FloorDiv(2 * S - n, 2 * n)

\* A frame grid that sums the two grids (the earlier variant of the notebook).
FrameCountSum(S, n) == N1(S, n) + N2(S, n)

\* Nframes = min(N1, N2)
FrameCount(S, n) == Min(N1(S, n), N2(S, n))

\* Content of the clip store: sample k (0-based) of clip c of genre g.
\* seed 0 is silence, seed 1 gives every sample of the corpus its own value.
Sample(sd, g, c, k) == IF sd = 0 THEN 0 ELSE 1000 * (g + 1) + 100 * c + k

\* y1 = gtzan[genres[genre]][:,clip]
Waveform(g, c) == [k \in 1..Nsamples |-> Sample(seed, g, c, k - 1)]

\* Python's normalisation of a slice bound against a length.
SliceBound(k, L) == IF k < 0 THEN Max(k + L, 0) ELSE Min(k, L)

\* y[a:b]
PySlice(y, a, b) ==
    LET lo == SliceBound(a, Len(y))
        hi == SliceBound(b, Len(y))
    IN  IF lo >= hi THEN <<>> ELSE SubSeq(y, lo + 1, hi)

\* A reshape in column-major ('F') order.
ReshapeF(flat, rows, cols) ==
    [i \in 0..(rows - 1) |-> [j \in 1..cols |-> flat[(j - 1) * rows + i + 1]]]

\* np.reshape(flat, newshape=(rows, cols), order='C'): row i, 0-based.
Reshape(flat, rows, cols) ==
    [i \in 0..(rows - 1) |-> SubSeq(flat, i * cols + 1, i * cols + cols)]

\* np.reshape raises ValueError unless the sizes agree.
ReshapeFits(flat, rows, cols) == Len(flat) = rows * cols

\* Number of columns of librosa.cqt(y, hop_length=hop): one per hop plus one.
CqtColumns(len, hop) == FloorDiv(len, hop) + 1

RECURSIVE SumFrom(_, _, _)
SumFrom(y, lo, hi) == IF lo > hi THEN 0 ELSE y[lo] + SumFrom(y, lo + 1, hi)

\* Column m (0-based) of librosa.cqt(y): ns values computed from hop m of y.
\* The numerical content of the transform is external; the model keeps its
\* shape, its time order and its dependence on the input.
CqtColumn(y, m) ==
    LET lo == m * na + 1
        hi == Min(m * na + na, Len(y))
    IN  [b \in 1..ns |-> SumFrom(y, lo, hi)]

\* librosa.cqt(y, **rosaparams)[:,:-1].T : rows 0 .. M-2
Spectrum(y) ==
    [m \in 0..(CqtColumns(Len(y), na) - 2) |-> CqtColumn(y, m)]

\* Rows of a 2-D payload.
Rows(p) == Cardinality(DOMAIN p)

\* A write that always goes to alignment 0: dset[g,c,:,0,:] = payload
WriteSlabAligned(dset, g, c, o, payload) ==
    [x \in {<<g, c, i, 0>> : i \in DOMAIN payload} |-> payload[x[3]]] @@ dset

\* dset[g,c,:,o,:] = payload, where the payload has the slab's shape
WriteSlab(dset, g, c, o, payload) ==
    [x \in {<<g, c, i, o>> : i \in DOMAIN payload} |-> payload[x[3]]] @@ dset

\* i = int(np.floor(Nframes * np.random.uniform())), uniform() in [0, 1)
RandomFrames(F) == IF F >= 1 THEN 0..(F - 1) ELSE {0}

\* The small corpora the model runs the whole pipeline on.
NaValues == (0 - 1)..MaxNa
SampleValues == 1..MaxSamples
Seeds == {0, 1}

TypeOK ==
    /\ state \in {"Input", "Parameters", "Output", "Idle", "Processing",
                  "Parallel", "Done", "Failed"}
    /\ error \in {"none", "ZeroDivisionError", "CreateDatasetError",
                  "ReshapeError", "IndexOutOfRange", "AssertionError",
                  "CqtError", "BroadcastError"}
    /\ audioCreated \in BOOLEAN
    /\ Nframes \in Int
    /\ genre \in Nat /\ clip \in Nat

(* --------------------------- initial states ---------------------------- *)
\* Nothing has run yet: no corpus is open, no parameter is set.
Init ==
    /\ na = 0 /\ Nsamples = 0 /\ Ngenres = 0 /\ Nclips = 0 /\ seed = 0
    /\ Nframes = 0
    /\ state = "Input"
    /\ genre = 0 /\ clip = 0
    /\ error = "none"
    /\ audioCreated = FALSE
    /\ XaShape = <<>> /\ XsShape = <<>>
    /\ Xa = <<>> /\ Xs = <<>>
    /\ visited = <<>>
    /\ workers = <<>>

(* ------------------------------ actions -------------------------------- *)
\* The Input cell opens the clip store gtzan.hdf5, whose attributes and
\* content are those of corpus (S, G, C, sd).
OpenInputWith(S, G, C, sd) ==
    /\ state = "Input"
    /\ Nsamples' = S /\ Ngenres' = G /\ Nclips' = C /\ seed' = sd
    /\ state' = "Parameters"
    /\ UNCHANGED <<na, Nframes, genre, clip, error, audioCreated, XaShape,
                   XsShape, Xa, Xs, visited, workers>>

OpenInput ==
    \E S \in SampleValues, G \in 1..MaxGenres, C \in 1..MaxClips, sd \in Seeds :
        OpenInputWith(S, G, C, sd)

\* The Parameters cell with frame size n: float(Nsamples) / na raises
\* ZeroDivisionError for na = 0.
ParametersWith(n) ==
    /\ state = "Parameters"
    /\ na' = n
    /\ IF n = 0
       THEN /\ state' = "Failed"
            /\ error' = "ZeroDivisionError"
            /\ UNCHANGED Nframes
       ELSE /\ Nframes' = FrameCount(Nsamples, n)
            /\ state' = "Output"
            /\ UNCHANGED error
    /\ UNCHANGED <<Nsamples, Ngenres, Nclips, seed, genre, clip, audioCreated,
                   XaShape, XsShape, Xa, Xs, visited, workers>>

Parameters == \E n \in NaValues : ParametersWith(n)

\* create_dataset accepts a shape whose dimensions are all >= 0 (a dimension
\* of 0 gives an empty dataset) and raises for a negative one.
ShapeOK(shape) == \A d \in 1..Len(shape) : shape[d] >= 0

\* The Output cell: the file is created first, then the two datasets.
CreateOutput ==
    /\ state = "Output"
    /\ audioCreated' = TRUE
    /\ LET sa == <<Ngenres, Nclips, Nframes, 2, na>>
           ss == <<Ngenres, Nclips, Nframes, 2, ns>>
       IN  IF ShapeOK(sa) /\ ShapeOK(ss)
           THEN /\ XaShape' = sa
                /\ XsShape' = ss
                /\ state' = "Idle"
                /\ UNCHANGED error
           ELSE /\ state' = "Failed"
                /\ error' = "CreateDatasetError"
                /\ UNCHANGED <<XaShape, XsShape>>
    /\ UNCHANGED <<config, Nframes, genre, clip, Xa, Xs, visited, workers>>

\* The pipeline loop begins: for genre in range(Ngenres): for clip in range(Nclips)
StartLoop ==
    /\ state = "Idle"
    /\ state' = "Processing"
    /\ genre' = 0 /\ clip' = 0
    /\ UNCHANGED <<config, Nframes, error, audioCreated, XaShape, XsShape,
                   Xa, Xs, visited, workers>>

\* h5py writes a payload into a slab of F rows only if it has F rows.
SlabFits(payload, F) == Rows(payload) = F

\* A row of a dataset; rows never written hold the fill value 0.
ReadRow(dset, g, c, i, o, width) ==
    IF <<g, c, i, o>> \in DOMAIN dset THEN dset[<<g, c, i, o>>]
    ELSE [j \in 1..width |-> 0]

\* process(genre, clip), statement by statement; i is the frame index drawn
\* for the reshape check, cqt is the number of calls of the external
\* transform that return: the call after them, if there is one, raises.
\* The result is the exception raised ("none" if none) and the contents of
\* Xa and Xs when the call ends.
ProcessResult(g, c, i, cqt) ==
    LET y1 == Waveform(g, c)
        y2 == PySlice(y1, FloorDiv(na, 2), Len(y1))
        f1 == PySlice(y1, 0, na * Nframes)
        f2 == PySlice(y2, 0, na * Nframes)
        xa1 == WriteSlab(Xa, g, c, 0, Reshape(f1, Nframes, na))
        xa2 == WriteSlab(xa1, g, c, 1, Reshape(f2, Nframes, na))
        s1 == Spectrum(y1)
        s2 == Spectrum(y2)
        xs1 == WriteSlab(Xs, g, c, 0, s1)
        xs2 == WriteSlab(xs1, g, c, 1, s2)
        h == FloorDiv(na, 2)
    IN  IF ~ReshapeFits(f1, Nframes, na)
        THEN [err |-> "ReshapeError", xa |-> Xa, xs |-> Xs]
        ELSE IF ~ReshapeFits(f2, Nframes, na)
        THEN [err |-> "ReshapeError", xa |-> xa1, xs |-> Xs]
        ELSE IF i \notin 0..(Nframes - 1)
        THEN [err |-> "IndexOutOfRange", xa |-> xa2, xs |-> Xs]
        ELSE IF \/ ReadRow(xa2, g, c, i, 0, na) # PySlice(y1, i * na, i * na + na)
                \/ ReadRow(xa2, g, c, i, 1, na)
                       # PySlice(y1, h + i * na, h + i * na + na)
        THEN [err |-> "AssertionError", xa |-> xa2, xs |-> Xs]
        ELSE IF cqt < 1
        THEN [err |-> "CqtError", xa |-> xa2, xs |-> Xs]
        ELSE IF ~SlabFits(s1, Nframes)
        THEN [err |-> "BroadcastError", xa |-> xa2, xs |-> Xs]
        ELSE IF cqt < 2
        THEN [err |-> "CqtError", xa |-> xa2, xs |-> xs1]
        ELSE IF ~SlabFits(s2, Nframes)
        THEN [err |-> "BroadcastError", xa |-> xa2, xs |-> xs1]
        ELSE [err |-> "none", xa |-> xa2, xs |-> xs2]

\* A loop that catches the exception of a clip and goes on with the next one.
LoopAfterSkipping(err, g, c) ==
    IF c + 1 < Nclips THEN <<"Processing", g, c + 1>>
    ELSE IF g + 1 < Ngenres THEN <<"Processing", g + 1, 0>>
    ELSE <<"Done", g, c>>

\* A loop nested the other way round: clips outside, genres inside.
LoopAfterClipMajor(err, g, c) ==
    IF err # "none" THEN <<"Failed", g, c>>
    ELSE IF g + 1 < Ngenres THEN <<"Processing", g + 1, c>>
    ELSE IF c + 1 < Nclips THEN <<"Processing", 0, c + 1>>
    ELSE <<"Done", g, c>>

\* The pipeline loop after process(g, c): an exception leaves the loop (nothing
\* catches it), otherwise the inner loop steps clip, then the outer one genre.
LoopAfter(err, g, c) ==
    IF err # "none" THEN <<"Failed", g, c>>
    ELSE IF c + 1 < Nclips THEN <<"Processing", g, c + 1>>
    ELSE IF g + 1 < Ngenres THEN <<"Processing", g + 1, 0>>
    ELSE <<"Done", g, c>>

\* One iteration of the pipeline loop: process(genre, clip)
Process ==
    /\ state = "Processing"
    /\ \E i \in RandomFrames(Nframes), cqt \in 0..2 :
         LET r == ProcessResult(genre, clip, i, cqt)
             n == LoopAfter(r.err, genre, clip)
         IN  /\ Xa' = r.xa
             /\ Xs' = r.xs
             /\ error' = r.err
             /\ state' = n[1]
             /\ genre' = n[2]
             /\ clip' = n[3]
    /\ visited' = Append(visited, <<genre, clip>>)
    /\ UNCHANGED <<config, Nframes, audioCreated, XaShape, XsShape, workers>>

Next == OpenInput \/ Parameters \/ CreateOutput \/ StartLoop \/ Process

Spec == Init /\ [][Next]_vars

\* The notebook executes its next statement whenever there is one.
FairSpec == Spec /\ WF_vars(Next)

(* ----------------- the frame grid and the allocation alone ------------- *)
\* The corpus of the end-to-end example: GTZAN clips, 2 genres of 3 clips.
ExampleCorpus ==
    /\ na = GtzanNa
    /\ Nsamples = GtzanNsamples
    /\ Ngenres = 2
    /\ Nclips = 3

\* The small corpora and the corpus of the example.
OpenInputGrid ==
    \E S \in SampleValues \cup {GtzanNsamples}, G \in 1..MaxGenres,
       C \in 1..(MaxClips + 1), sd \in Seeds :
        OpenInputWith(S, G, C, sd)

ParametersGrid == \E n \in NaValues \cup {GtzanNa} : ParametersWith(n)

NextGrid == OpenInputGrid \/ ParametersGrid \/ CreateOutput

GridSpec == Init /\ [][NextGrid]_vars

(* ------------------------ vocabulary of the claims --------------------- *)
\* The k-th (genre, clip) pair in genre-major, clip-minor order, k from 1.
Order(k) == <<(k - 1) \div Nclips, (k - 1) % Nclips>>

\* Position of a pair in that order.
Rank(g, c) == g * Nclips + c + 1

Started == state \in {"Idle", "Processing", "Done", "Failed"}

AllCoords ==
    {<<g, c, i, o>> : g \in 0..(Ngenres - 1), c \in 0..(Nclips - 1),
                      i \in 0..(Nframes - 1), o \in {0, 1}}

ClipCoords(g, c) == {<<g, c, i, o>> : i \in 0..(Nframes - 1), o \in {0, 1}}

\* Start of frame i of alignment o in the waveform (0-based sample offset).
FrameStart(i, o) == (IF o = 0 THEN 0 ELSE na \div 2) + i * na

\* The stored row is the na samples of the clip that start at FrameStart.
RowIsSlice(x) ==
    /\ Len(Xa[x]) = na
    /\ FrameStart(x[3], x[4]) + na <= Nsamples
    /\ \A j \in 1..na :
         Xa[x][j] = Sample(seed, x[1], x[2], FrameStart(x[3], x[4]) + j - 1)

\* C1: after process(genre, clip), with na > 0 and Nframes >= 1, every row
\* Xa[genre, clip, i, 0, :] is waveform[i*na : i*na+na] and every row
\* Xa[genre, clip, i, 1, :] is waveform[na/2+i*na : na/2+i*na+na]; all slices
\* lie inside the waveform (na/2 + Nframes*na <= Nsamples), none is short.
C1_FramesEqualSlices ==
    /\ \A x \in DOMAIN Xa : RowIsSlice(x)
    /\ (na > 0 /\ Nframes >= 1 /\ Started) =>
          /\ na \div 2 + Nframes * na <= Nsamples
          /\ \A k \in 1..Len(visited) :
                ClipCoords(visited[k][1], visited[k][2]) \subseteq DOMAIN Xa

C1_Witness ==
    /\ seed = 1 /\ na = 3 /\ Nframes >= 2
    /\ <<Ngenres - 1, Nclips - 1, Nframes - 1, 1>> \in DOMAIN Xa
    /\ Ngenres = 2 /\ Nclips = 2

\* Frame indices of the rows of Xs written for clip (g, c), alignment o.
SpectrumRows(g, c, o) == {x[3] : x \in {w \in DOMAIN Xs : <<w[1], w[2], w[4]>> = <<g, c, o>>}}

\* C2: for every clip length and frame size, both transforms of a clip have
\* Nframes columns once the last one is dropped, so the spectrum payload
\* always fits the slab declared for it: no write of a spectrum is refused
\* for its shape, and a clip whose transforms returned has exactly the rows
\* 0 .. Nframes-1 of both alignments written.
C2_SpectrumFitsSlab ==
    /\ error # "BroadcastError"
    /\ \A k \in 1..Len(visited) :
          (k < Len(visited) \/ error = "none") =>
              \A o \in {0, 1} :
                  SpectrumRows(visited[k][1], visited[k][2], o)
                      = 0..(Nframes - 1)

\* n is floor(p / q) for q > 0: the integer with n*q <= p < (n+1)*q
IsFloor(n, p, q) == n * q <= p /\ p < (n + 1) * q

\* C3: for na > 0 and Nsamples >= na, Nframes = min(N1, N2) with
\* N1 = floor(Nsamples / na) and N2 = floor(Nsamples / na - 0.5); it is a
\* non-negative integer, <= N1 and <= N2.
C3_FrameCountIsMin ==
    (state \in {"Output", "Idle"} /\ na > 0 /\ Nsamples >= na) =>
        /\ Nframes \in Nat
        /\ \E n1 \in Nframes..(Nframes + 2), n2 \in Nframes..(Nframes + 2) :
              /\ IsFloor(n1, Nsamples, na)
              /\ IsFloor(n2, 2 * Nsamples - na, 2 * na)
              /\ Nframes = Min(n1, n2)
              /\ Nframes <= n1 /\ Nframes <= n2

C3_Witness ==
    /\ state = "Idle" /\ na = 4 /\ Nsamples = 10 /\ Nframes = 2

\* C4 as stated: the example corpus gives N1 = 644, N2 = 643, Nframes = 643
\* and shapes (2,3,643,2,1024) and (2,3,643,2,96).
C4_Original ==
    (ExampleCorpus /\ state = "Idle") =>
        /\ IsFloor(644, Nsamples, na)
        /\ IsFloor(643, 2 * Nsamples - na, 2 * na)
        /\ Nframes = 643
        /\ XaShape = <<2, 3, 643, 2, 1024>>
        /\ XsShape = <<2, 3, 643, 2, 96>>

\* C4 amended: the example corpus gives N1 = 644, N2 = 644, Nframes = 644
\* and shapes (2,3,644,2,1024) and (2,3,644,2,96).
C4_ExampleShapes ==
    (ExampleCorpus /\ state = "Idle") =>
        /\ IsFloor(644, Nsamples, na)
        /\ IsFloor(644, 2 * Nsamples - na, 2 * na)
        /\ Nframes = 644
        /\ XaShape = <<2, 3, 644, 2, 1024>>
        /\ XsShape = <<2, 3, 644, 2, 96>>

C4_Witness == ExampleCorpus /\ state = "Idle" /\ Len(XaShape) = 5

\* C5: in state Done both datasets have the shape declared at allocation and
\* every (genre, clip, frame, alignment) row of both has been written.
C5_DoneIsComplete ==
    state = "Done" =>
        /\ XaShape = <<Ngenres, Nclips, Nframes, 2, na>>
        /\ XsShape = <<Ngenres, Nclips, Nframes, 2, ns>>
        /\ DOMAIN Xa = AllCoords
        /\ DOMAIN Xs = AllCoords
        /\ \A x \in AllCoords : Len(Xa[x]) = na /\ Len(Xs[x]) = ns

C5_Witness ==
    /\ state = "Done" /\ Ngenres = 2 /\ Nclips = 2 /\ Nframes >= 2
    /\ Cardinality(DOMAIN Xs) = 8 * Nframes

VisitedInOrder ==
    /\ \A k \in 1..Len(visited) : visited[k] = Order(k)
    /\ Len(visited) <= Ngenres * Nclips
    /\ state \in {"Input", "Parameters", "Output", "Idle"} => visited = <<>>
    /\ state = "Processing" =>
          /\ Len(visited) < Ngenres * Nclips
          /\ <<genre, clip>> = Order(Len(visited) + 1)
    /\ state = "Done" => Len(visited) = Ngenres * Nclips

\* C6: the driver goes from Idle to Processing(0,0) and visits every
\* (genre, clip) pair exactly once in genre-major, clip-minor order; a run in
\* which no clip fails reaches Done.
C6_GenreMajorOrder ==
    /\ []VisitedInOrder
    /\ [][state = "Idle" => state' = "Processing" /\ genre' = 0 /\ clip' = 0]_vars
    /\ (state = "Idle") ~> (state \in {"Done", "Failed"})

C6_Witness ==
    /\ state = "Done" /\ Ngenres = 2 /\ Nclips = 2
    /\ visited = <<<<0, 0>>, <<0, 1>>, <<1, 0>>, <<1, 1>>>>

\* The slab of a clip that was processed without error.
SlabComplete(g, c) ==
    \A x \in ClipCoords(g, c) :
        /\ x \in DOMAIN Xa /\ RowIsSlice(x)
        /\ x \in DOMAIN Xs /\ Len(Xs[x]) = ns

FailedInv ==
    /\ error # "none" => state = "Failed"
    /\ (state = "Failed" /\ visited # <<>>) =>
          /\ visited[Len(visited)] = <<genre, clip>>
          /\ \A x \in DOMAIN Xa \cup DOMAIN Xs :
                Rank(x[1], x[2]) <= Rank(genre, clip)
          /\ \A k \in 1..(Len(visited) - 1) :
                SlabComplete(visited[k][1], visited[k][2])

\* The rows of every clip other than (g, c) are the same before and after.
OtherSlabsKept(g, c) ==
    /\ \A x \in DOMAIN Xa :
          <<x[1], x[2]>> # <<g, c>> => x \in DOMAIN Xa' /\ Xa'[x] = Xa[x]
    /\ \A x \in DOMAIN Xs :
          <<x[1], x[2]>> # <<g, c>> => x \in DOMAIN Xs' /\ Xs'[x] = Xs[x]

\* C7: an error raised by process(g, c) puts the driver in Failed for good:
\* no later clip is processed or written, Done is not reached, and the slabs
\* of the earlier clips stay as written.
C7_FailureAborts ==
    /\ []FailedInv
    /\ [][/\ state = "Failed" => UNCHANGED vars
          /\ state' = "Failed" => OtherSlabsKept(genre, clip)]_vars

C7_Witness ==
    /\ state = "Failed" /\ error = "CqtError"
    /\ Len(visited) = 3 /\ Nframes >= 2
    /\ <<1, 0, 0, 0>> \in DOMAIN Xs

\* The exception classes of the design that the raised exceptions fall in.
ErrorClass(e) ==
    CASE e = "none" -> "none"
      [] e = "ReshapeError" -> "InsufficientSamples"
      [] e = "BroadcastError" -> "ShapeMismatch"
      [] e = "CqtError" -> "TransformFailure"
      [] OTHER -> "Unclassified"

\* C8: with clips of exactly na samples (N1 = 1, N2 = 0, Nframes = 0) the run
\* either completes with 0 frame pairs per clip or fails with
\* InsufficientSamples; it raises no other error.
C8_ExactlyOneFrameNoCrash ==
    (state \notin {"Input", "Parameters"} /\ na > 0 /\ Nsamples = na) =>
        ErrorClass(error) \in {"none", "InsufficientSamples"}

\* C9: with an invalid configuration (na <= 0, Nsamples < na or Nframes < 1)
\* the run stops before processing starts: the output file is never created
\* and no clip is processed.
C9_InvalidConfigurationAborts ==
    (state \notin {"Input", "Parameters"}
        /\ (na <= 0 \/ Nsamples < na \/ Nframes < 1)) =>
            /\ ~audioCreated
            /\ visited = <<>>

AllFourWritten(g, c) ==
    ClipCoords(g, c) \subseteq (DOMAIN Xa \cap DOMAIN Xs)

NoneWritten(g, c) ==
    ClipCoords(g, c) \cap (DOMAIN Xa \cup DOMAIN Xs) = {}

\* C10: between clips and after a failure, each clip has either all four of
\* its sub-regions written or none of them.
C10_ClipWriteAtomic ==
    Started =>
        \A g \in 0..(Ngenres - 1), c \in 0..(Nclips - 1) :
            AllFourWritten(g, c) \/ NoneWritten(g, c)

(* ------------- the clips processed by a pool of tasks ------------------ *)
\* The statements of process(g, c) in four groups, each ending with one
\* slab write, applied to datasets xa and xs: 1 the aligned frames, 2 the
\* shifted frames, 3 the reshape check and the aligned spectrum, 4 the
\* shifted spectrum.  i is the frame index drawn for the check, ok tells
\* whether the transform of the group returns.
StatementResult(k, xa, xs, g, c, i, ok) ==
    LET y1 == Waveform(g, c)
        h == FloorDiv(na, 2)
        y2 == PySlice(y1, h, Len(y1))
        f == PySlice(IF k = 1 THEN y1 ELSE y2, 0, na * Nframes)
        s == Spectrum(IF k = 3 THEN y1 ELSE y2)
    IN  IF k \in {1, 2}
        THEN IF ~ReshapeFits(f, Nframes, na)
             THEN [err |-> "ReshapeError", xa |-> xa, xs |-> xs]
             ELSE [err |-> "none", xs |-> xs,
                   xa |-> WriteSlab(xa, g, c, k - 1, Reshape(f, Nframes, na))]
        ELSE IF k = 3 /\ i \notin 0..(Nframes - 1)
        THEN [err |-> "IndexOutOfRange", xa |-> xa, xs |-> xs]
        ELSE IF /\ k = 3
                /\ \/ ReadRow(xa, g, c, i, 0, na)
                         # PySlice(y1, i * na, i * na + na)
                   \/ ReadRow(xa, g, c, i, 1, na)
                         # PySlice(y1, h + i * na, h + i * na + na)
        THEN [err |-> "AssertionError", xa |-> xa, xs |-> xs]
        ELSE IF ~ok
        THEN [err |-> "CqtError", xa |-> xa, xs |-> xs]
        ELSE IF ~SlabFits(s, Nframes)
        THEN [err |-> "BroadcastError", xa |-> xa, xs |-> xs]
        ELSE [err |-> "none", xa |-> xa,
              xs |-> WriteSlab(xs, g, c, k - 3, s)]

\* The (genre, clip) pairs of the corpus.
Pairs == {<<g, c>> : g \in 0..(Ngenres - 1), c \in 0..(Nclips - 1)}

\* The pool is handed one task per (genre, clip) instead of the loop.
StartWorkers ==
    /\ state = "Idle"
    /\ state' = "Parallel"
    /\ workers' = [p \in Pairs |-> [pc |-> 0, err |-> "none"]]
    /\ UNCHANGED <<config, Nframes, genre, clip, error, audioCreated,
                   XaShape, XsShape, Xa, Xs, visited>>

\* A task executes its next group of statements on the shared datasets,
\* without any lock; an exception ends that task only.
WorkerStep ==
    /\ state = "Parallel"
    /\ \E p \in DOMAIN workers, i \in RandomFrames(Nframes), ok \in BOOLEAN :
         /\ workers[p].pc < 4
         /\ workers[p].err = "none"
         /\ LET r == StatementResult(workers[p].pc + 1, Xa, Xs, p[1], p[2],
                                     i, ok)
            IN  /\ Xa' = r.xa
                /\ Xs' = r.xs
                /\ workers' = [workers EXCEPT ![p] =
                      IF r.err = "none"
                      THEN [pc |-> workers[p].pc + 1, err |-> "none"]
                      ELSE [pc |-> workers[p].pc, err |-> r.err]]
    /\ UNCHANGED <<config, Nframes, state, genre, clip, error, audioCreated,
                   XaShape, XsShape, visited>>

NextPar == OpenInput \/ Parameters \/ CreateOutput \/ StartWorkers \/ WorkerStep

ParSpec == Init /\ [][NextPar]_vars

\* process(g, c) run alone on xa and xs, from statement group k on, with
\* transforms that return: the first exception ends it.
RECURSIVE ProcessFrom(_, _, _, _, _)
ProcessFrom(k, xa, xs, g, c) ==
    IF k > 4 THEN [err |-> "none", xa |-> xa, xs |-> xs]
    ELSE LET r == StatementResult(k, xa, xs, g, c, 0, TRUE)
         IN  IF r.err # "none" THEN r
             ELSE ProcessFrom(k + 1, r.xa, r.xs, g, c)

\* The pipeline loop from the n-th pair on, with transforms that return:
\* the datasets it ends with.
RECURSIVE LoopFrom(_, _, _)
LoopFrom(n, xa, xs) ==
    IF n > Ngenres * Nclips THEN [err |-> "none", xa |-> xa, xs |-> xs]
    ELSE LET r == ProcessFrom(1, xa, xs, Order(n)[1], Order(n)[2])
         IN  IF r.err # "none" THEN r ELSE LoopFrom(n + 1, r.xa, r.xs)

SequentialRun == LoopFrom(1, <<>>, <<>>)

\* Every task of the pool has ended, by its last statement or an exception.
PoolEnded ==
    /\ state = "Parallel"
    /\ \A p \in DOMAIN workers : workers[p].pc = 4 \/ workers[p].err # "none"

\* No call of the external transform raised in any task.
NoTransformFailure == \A p \in DOMAIN workers : workers[p].err # "CqtError"

\* The sequential run, as modelled by the loop, ends with the datasets of
\* SequentialRun whenever no transform raised in it.
SequentialRunIsLoop ==
    (state \in {"Done", "Failed"} /\ visited # <<>> /\ error # "CqtError") =>
        Xa = SequentialRun.xa /\ Xs = SequentialRun.xs

\* Every step of a task leaves the slabs of all other clips as they were.
TaskWritesOwnSlab ==
    [][\A p \in DOMAIN workers :
          (p \in DOMAIN workers' /\ workers'[p] # workers[p])
              => OtherSlabsKept(p[1], p[2])]_vars

\* When no task raises, the pool ends with the datasets of the sequential run.
PoolConfluentWithoutErrors ==
    (PoolEnded /\ \A p \in DOMAIN workers : workers[p].err = "none") =>
        Xa = SequentialRun.xa /\ Xs = SequentialRun.xs

\* C11: a task for (genre, clip) writes only rows of its own slab, and when
\* one task per (genre, clip) runs without locking, every interleaving ends
\* with the same datasets as the sequential genre-major run (stated for the
\* runs in which no call of the transform raised).
C11_PoolEqualsSequentialRun ==
    /\ state = "Parallel" =>
          \A x \in DOMAIN Xa \cup DOMAIN Xs : workers[<<x[1], x[2]>>].pc >= 1
    /\ (PoolEnded /\ NoTransformFailure) =>
          Xa = SequentialRun.xa /\ Xs = SequentialRun.xs
====
